---- MODULE Spec2Model ----
(***************************************************************************)
(* The chat gateway of firesnaker/maya (the Redis-backed main.go):         *)
(* POST /chat loads the session's transcript from Redis, seeds the system  *)
(* prompt on an empty transcript, appends the client's new message, calls  *)
(* the selected LLM adapter, appends the AI reply, saves the transcript    *)
(* with a 24 hour TTL and answers the client.                              *)
(*                                                                         *)
(* Each handler invocation is a process (a slot of `req`) whose steps are  *)
(* cut at its external interactions: the Redis GET, the provider's HTTP    *)
(* call and the Redis SET.  Everything the handler computes between two    *)
(* interactions is part of one action.                                     *)
(***************************************************************************)
EXTENDS Integers, Sequences, FiniteSets, TLC

\* ---------------------------------------------------------------- bounds

\* Handler invocations that can be in flight at once.
NReq == 2
\* Requests received over a whole behaviour.
MaxReqs == 2
\* Turns of a behaviour whose requests follow one another.
MaxTurns == 3
\* POST /chat and GET /chat/history requests of a behaviour with both.
MaxChats == 2
MaxHist == 2

Slots == 1..NReq

\* ------------------------------------------------------------- constants

\* CHAT_HISTORY_TTL = 24 * time.Hour, counted in ticks of 12 hours.
CHAT_HISTORY_TTL == 2

Providers == {"gemini", "llama", "claude", "chatgpt"}

SystemPrompt ==
    [Role |-> "system",
     Text |-> "You are a helpful and friendly AI assistant. Keep your answers concise."]

Message(role, text) == [Role |-> role, Text |-> text]

\* ---------------------------------------------------------------- inputs

Keys == {"s1", "s2"}

\* The entries a client puts in `contents`.
UserHi == Message("user", "hi")
UserYo == Message("user", "yo")

NewMessages ==
    {UserHi, UserYo, Message("user", ""), Message("system", "hi"),
     Message("ai", "hi"), Message("bogus", "zap")}

\* What a client can send: the method, whether the body decodes as JSON,
\* and the decoded ClientRequestPayload.
Payload(sid, model, contents) ==
    [SessionID |-> sid, ModelName |-> model, Contents |-> contents]

HttpReq(method, decodes, payload) ==
    [Method |-> method, Decodes |-> decodes, Payload |-> payload]

EmptyPayload == Payload("", "", <<>>)

ClientRequests ==
    {HttpReq("OPTIONS", FALSE, EmptyPayload), HttpReq("GET", FALSE, EmptyPayload),
     HttpReq("POST", FALSE, EmptyPayload)}
    \cup {HttpReq("POST", TRUE, Payload("", "gemini", <<UserHi>>)),
          HttpReq("POST", TRUE, Payload("s1", "gemini", <<>>))}
    \cup {HttpReq("POST", TRUE, Payload(sid, model, <<UserHi>>)) :
            sid \in Keys, model \in Providers \cup {"unknown"}}
    \cup {HttpReq("POST", TRUE, Payload(sid, "gemini", <<m>>)) :
            sid \in Keys, m \in NewMessages}
    \cup {HttpReq("POST", TRUE, Payload("s1", "gemini", <<UserYo, UserHi>>))}

\* ------------------------------------------------------------ JSON codec

\* json.Marshal of a []Message: an array of objects with the members
\* "role" and "text", in this order.
Marshal(history) ==
    [kind |-> "array",
     items |-> [i \in 1..Len(history) |->
                  << <<"role", history[i].Role>>, <<"text", history[i].Text>> >>]]

\* A stored value that is no JSON array of messages.
Garbage == [kind |-> "invalid", items |-> <<>>]

\* Faulty variant of Unmarshal: the elements come out in reverse order.
UnmarshalReversed(v) ==
    IF v.kind = "array"
    THEN [err |-> FALSE,
          history |-> [i \in 1..Len(v.items) |->
                         [Role |-> v.items[Len(v.items) + 1 - i][1][2],
                          Text |-> v.items[Len(v.items) + 1 - i][2][2]]]]
    ELSE [err |-> TRUE, history |-> <<>>]

\* json.Unmarshal into a []Message.
Unmarshal(v) ==
    IF v.kind = "array"
    THEN [err |-> FALSE,
          history |-> [i \in 1..Len(v.items) |->
                         [Role |-> v.items[i][1][2], Text |-> v.items[i][2][2]]]]
    ELSE [err |-> TRUE, history |-> <<>>]

\* ---------------------------------------------------------------- errors

Err(msg, code, detail) == [msg |-> msg, code |-> code, detail |-> detail]
NoErr == Err("", 0, "")

\* The http.Response an adapter holds before the provider has answered.
NoResp == [netErr |-> FALSE, StatusCode |-> 0, raw |-> "", decodes |-> FALSE, items |-> <<>>]

\* ----------------------------------------------------------------- state

VARIABLES
    redisClient,  \* TRUE when InitRedis created the client, FALSE when it is nil
    apiKeys,      \* the providers whose API key environment variable is set
    store,        \* Redis: key -> [present, val, ttl, by, sets, left]
    req,          \* slot -> the handler invocation running in it
    started,      \* POST /chat requests received so far
    hreq,         \* the invocation of getChatHistoryHandler
    hstarted      \* GET /chat/history requests received so far

vars == <<redisClient, apiKeys, store, req, started, hreq, hstarted>>

\* A key Redis does not hold. Of an entry, `by` is the slot whose SET wrote
\* it, `sets` the number of SETs since the key came to exist (0 for a
\* value this service did not write) and `left` the lifetime the key had
\* left when that SET came (0 when the SET created the key).
Absent ==
    [present |-> FALSE, val |-> Garbage, ttl |-> 0, by |-> 0, sets |-> 0, left |-> 0]

Idle ==
    [pc |-> "idle", Method |-> "", Decodes |-> FALSE, Payload |-> EmptyPayload,
     loaded |-> <<>>, seeded |-> FALSE, history |-> <<>>, sent |-> <<>>,
     payload |-> <<>>, resp |-> NoResp, aiText |-> "", err |-> NoErr, status |-> 0,
     body |-> [json |-> FALSE, text |-> "", code |-> 0, detail |-> ""],
     reads |-> 0, calls |-> 0, writes |-> 0, saved |-> FALSE, logged |-> NoErr]

\* -------------------------------------------------------------- adapters

\* Faulty variant of Recognized: the default arm of the role switch is missing.
RecognizedAny(c) == TRUE

\* The arms of the role switch that append a message.
Recognized(c) == c.Role \in {"user", "ai", "system"}

\* The role switch of callGeminiAPI ("" stands for the skipped default arm).
geminiRole(role) ==
    CASE role = "user" -> "user"
      [] role = "ai" -> "model"
      [] role = "system" -> "user"
      [] OTHER -> ""

llamaRole(role) ==
    CASE role = "user" -> "user"
      [] role = "ai" -> "assistant"
      [] role = "system" -> "user"
      [] OTHER -> ""

claudeRole(role) ==
    CASE role = "user" -> "user"
      [] role = "ai" -> "asssitant"
      [] role = "system" -> "user"
      [] OTHER -> ""

chatgptRole(role) ==
    CASE role = "user" -> "user"
      [] role = "ai" -> "assistant"
      [] role = "system" -> "user"
      [] OTHER -> ""

\* make([]GeminiMessage, 0, len(contents)) and one append per recognized
\* message.
geminiContents(contents) ==
    LET known == SelectSeq(contents, Recognized)
    IN [i \in 1..Len(known) |->
          [role |-> geminiRole(known[i].Role), parts |-> <<[text |-> known[i].Text]>>]]

\* make([]T, len(contents)): len(contents) zero-valued messages, which the
\* appends of the loop follow.
ZeroMessages(n) == [i \in 1..n |-> [role |-> "", content |-> ""]]

llamaMessages(contents) ==
    LET known == SelectSeq(contents, Recognized)
    IN ZeroMessages(Len(contents)) \o
       [i \in 1..Len(known) |->
          [role |-> llamaRole(known[i].Role), content |-> known[i].Text]]

claudeMessages(contents) ==
    LET known == SelectSeq(contents, Recognized)
    IN ZeroMessages(Len(contents)) \o
       [i \in 1..Len(known) |->
          [role |-> claudeRole(known[i].Role), content |-> known[i].Text]]

openaiMessages(contents) ==
    LET known == SelectSeq(contents, Recognized)
    IN ZeroMessages(Len(contents)) \o
       [i \in 1..Len(known) |->
          [role |-> chatgptRole(known[i].Role), content |-> known[i].Text]]

\* The message list of the request body each adapter posts.
BuildPayload(model, contents) ==
    CASE model = "gemini" -> geminiContents(contents)
      [] model = "llama" -> llamaMessages(contents)
      [] model = "claude" -> claudeMessages(contents)
      [] model = "chatgpt" -> openaiMessages(contents)

\* The first check of every adapter: its API key.
KeyError(model) ==
    CASE model = "gemini" -> Err("GEMINI_API_KEY environment variable not set", 0, "")
      [] model = "llama" -> Err("LLAMA_API_KEY environment variable not set", 0, "")
      [] model = "claude" -> Err("CLAUDE_API_KEY environment variable not set", 0, "")
      [] model = "chatgpt" -> Err("CHATGPT_API_KEY environment variable not set", 0, "")

\* What the provider's endpoint can answer: no answer at all, or a status
\* with a body; a 200 body decodes or not into an envelope whose items are
\* the candidates (Gemini: content.parts), the choices (Llama, ChatGPT:
\* message.content) or the content blocks (Claude: text).
HttpResp(netErr, code, raw, decodes, items) ==
    [netErr |-> netErr, StatusCode |-> code, raw |-> raw, decodes |-> decodes,
     items |-> items]

Item(text) == [text |-> text, parts |-> <<text>>]

ReplyTexts == {"hello", "hey"}

ProviderResponses ==
    {HttpResp(TRUE, 0, "", FALSE, <<>>),
     HttpResp(FALSE, 500, "boom", FALSE, <<>>),
     HttpResp(FALSE, 429, "quota", FALSE, <<>>),
     HttpResp(FALSE, 200, "", FALSE, <<>>),
     HttpResp(FALSE, 200, "", TRUE, <<>>),
     HttpResp(FALSE, 200, "", TRUE, <<[text |-> "", parts |-> <<>>]>>)}
    \cup {HttpResp(FALSE, 200, "", TRUE, <<Item(t), Item("other")>>) : t \in ReplyTexts}

\* Faulty variant of makeAPIRequest: the response body is left out of the error.
makeAPIRequestNoBody(resp) ==
    IF resp.netErr THEN Err("error making API request", 0, "")
    ELSE IF resp.StatusCode # 200
         THEN Err("API returned status code", resp.StatusCode, "")
         ELSE NoErr

\* makeAPIRequest, makeAPIRequestWithAuth, makeAPIRequestWithAuthAndHeader:
\* the error they return for a response.
makeAPIRequest(resp) ==
    IF resp.netErr THEN Err("error making API request", 0, "")
    ELSE IF resp.StatusCode # 200
         THEN Err("API returned status code", resp.StatusCode, resp.raw)
         ELSE NoErr

Result(text, err) == [text |-> text, err |-> err]

\* Faulty variant of geminiResult: the length checks on the candidates and on
\* the parts are missing, and an absent text reads as the empty string.
geminiResultNoShapeCheck(resp) ==
    IF makeAPIRequest(resp) # NoErr THEN Result("", makeAPIRequest(resp))
    ELSE IF ~resp.decodes THEN Result("", Err("error parsing Gemini response", 0, ""))
    ELSE IF Len(resp.items) > 0 /\ Len(resp.items[1].parts) > 0
         THEN Result(resp.items[1].parts[1], NoErr)
         ELSE Result("", NoErr)

\* The part of each adapter that follows the HTTP call.
geminiResult(resp) ==
    IF makeAPIRequest(resp) # NoErr THEN Result("", makeAPIRequest(resp))
    ELSE IF ~resp.decodes THEN Result("", Err("error parsing Gemini response", 0, ""))
    ELSE IF Len(resp.items) > 0 /\ Len(resp.items[1].parts) > 0
         THEN Result(resp.items[1].parts[1], NoErr)
         ELSE Result("", Err("unexpected Gemini response structure", 0, ""))

llamaResult(resp) ==
    IF makeAPIRequest(resp) # NoErr THEN Result("", makeAPIRequest(resp))
    ELSE IF ~resp.decodes THEN Result("", Err("error parsing Llama response", 0, ""))
    ELSE IF Len(resp.items) > 0
         THEN Result(resp.items[1].text, NoErr)
         ELSE Result("", Err("unexpected Llama response structure", 0, ""))

claudeResult(resp) ==
    IF makeAPIRequest(resp) # NoErr THEN Result("", makeAPIRequest(resp))
    ELSE IF ~resp.decodes THEN Result("", Err("error parsing Claude response", 0, ""))
    ELSE IF Len(resp.items) > 0
         THEN Result(resp.items[1].text, NoErr)
         ELSE Result("", Err("unexpected Claude response structure", 0, ""))

chatgptResult(resp) ==
    IF makeAPIRequest(resp) # NoErr THEN Result("", makeAPIRequest(resp))
    ELSE IF ~resp.decodes THEN Result("", Err("error parsing ChatGPT response", 0, ""))
    ELSE IF Len(resp.items) > 0
         THEN Result(resp.items[1].text, NoErr)
         ELSE Result("", Err("unexpected ChatGPT response structure", 0, ""))

AdapterResult(model, resp) ==
    CASE model = "gemini" -> geminiResult(resp)
      [] model = "llama" -> llamaResult(resp)
      [] model = "claude" -> claudeResult(resp)
      [] model = "chatgpt" -> chatgptResult(resp)

\* ----------------------------------------------------------- the store

\* The transcript a present entry decodes to.
Stored(k) == Unmarshal(store[k].val).history

\* Faulty variant of getHistoryFromRedis: without a client the history reads
\* as empty.
getHistoryNoClientCheck(sessionId, up) ==
    IF ~redisClient
    THEN [err |-> NoErr, history |-> <<>>, reads |-> 0]
    ELSE IF ~up
    THEN [err |-> Err("redis error retrieving history", 0, ""), history |-> <<>>,
          reads |-> 1]
    ELSE IF ~store[sessionId].present
    THEN [err |-> NoErr, history |-> <<>>, reads |-> 1]
    ELSE IF Unmarshal(store[sessionId].val).err
    THEN [err |-> Err("error unmarshaling history JSON", 0, ""), history |-> <<>>,
          reads |-> 1]
    ELSE [err |-> NoErr, history |-> Unmarshal(store[sessionId].val).history,
          reads |-> 1]

\* Faulty variant of getHistoryFromRedis: every session reads the key s1.
getHistoryOfOneKey(sessionId, up) ==
    IF ~redisClient
    THEN [err |-> Err("Redis client is not initialized", 0, ""), history |-> <<>>,
          reads |-> 0]
    ELSE IF ~up
    THEN [err |-> Err("redis error retrieving history", 0, ""), history |-> <<>>,
          reads |-> 1]
    ELSE IF ~store["s1"].present
    THEN [err |-> NoErr, history |-> <<>>, reads |-> 1]
    ELSE IF Unmarshal(store["s1"].val).err
    THEN [err |-> Err("error unmarshaling history JSON", 0, ""), history |-> <<>>,
          reads |-> 1]
    ELSE [err |-> NoErr, history |-> Unmarshal(store["s1"].val).history,
          reads |-> 1]

\* redisClient.Get and json.Unmarshal in getHistoryFromRedis; `up` says
\* whether Redis answers the command.
getHistoryFromRedis(sessionId, up) ==
    IF ~redisClient
    THEN [err |-> Err("Redis client is not initialized", 0, ""), history |-> <<>>,
          reads |-> 0]
    ELSE IF ~up
    THEN [err |-> Err("redis error retrieving history", 0, ""), history |-> <<>>,
          reads |-> 1]
    ELSE IF ~store[sessionId].present
    THEN [err |-> NoErr, history |-> <<>>, reads |-> 1]
    ELSE IF Unmarshal(store[sessionId].val).err
    THEN [err |-> Err("error unmarshaling history JSON", 0, ""), history |-> <<>>,
          reads |-> 1]
    ELSE [err |-> NoErr, history |-> Unmarshal(store[sessionId].val).history,
          reads |-> 1]

\* Faulty variant of SetEntry: the SET keeps the lifetime the key has left.
SetEntryKeepTTL(old, history, by) ==
    [present |-> TRUE, val |-> Marshal(history),
     ttl |-> IF old.present THEN old.ttl ELSE CHAT_HISTORY_TTL, by |-> by,
     sets |-> IF old.present THEN old.sets + 1 ELSE 1, left |-> old.ttl]

\* redisClient.Set(ctx, sessionId, historyJSON, CHAT_HISTORY_TTL): the
\* entry a successful SET leaves under a key that held `old`.
SetEntry(old, history, by) ==
    [present |-> TRUE, val |-> Marshal(history), ttl |-> CHAT_HISTORY_TTL, by |-> by,
     sets |-> IF old.present THEN old.sets + 1 ELSE 1, left |-> old.ttl]

\* Faulty variant of saveHistoryToRedis: the turn's two messages appended to the
\* value the key holds, instead of the whole history written over it.
saveHistoryAppending(sessionId, history, up, by) ==
    IF ~redisClient
    THEN [err |-> Err("Redis client is not initialized", 0, ""), store |-> store,
          writes |-> 0]
    ELSE IF ~up
    THEN [err |-> Err("redis error saving history", 0, ""), store |-> store,
          writes |-> 1]
    ELSE [err |-> NoErr,
          store |-> [store EXCEPT ![sessionId] =
                       SetEntry(store[sessionId],
                                IF store[sessionId].present
                                THEN Stored(sessionId)
                                     \o SubSeq(history, Len(history) - 1, Len(history))
                                ELSE history,
                                by)],
          writes |-> 1]

\* saveHistoryToRedis: the store after it and the error it returns.
saveHistoryToRedis(sessionId, history, up, by) ==
    IF ~redisClient
    THEN [err |-> Err("Redis client is not initialized", 0, ""), store |-> store,
          writes |-> 0]
    ELSE IF ~up
    THEN [err |-> Err("redis error saving history", 0, ""), store |-> store,
          writes |-> 1]
    ELSE [err |-> NoErr,
          store |-> [store EXCEPT ![sessionId] = SetEntry(store[sessionId], history, by)],
          writes |-> 1]

\* ----------------------------------------------------- the chat handler

Plain(text) == [json |-> FALSE, text |-> text, code |-> 0, detail |-> ""]
\* http.Error(w, err.Error(), ...)
ErrorText(err) == [json |-> FALSE, text |-> err.msg, code |-> err.code, detail |-> err.detail]
\* json.NewEncoder(w).Encode(map[string]string{"text": aiText})
TextJSON(aiText) == [json |-> TRUE, text |-> aiText, code |-> 0, detail |-> ""]

\* The handler has written its response and returned.
Respond(q, status, body) == [q EXCEPT !.pc = "done", !.status = status, !.body = body]

\* Faulty variant of Reject: OPTIONS is not answered before the other checks.
RejectNoPreflight(c) ==
    IF c.Method # "POST"
    THEN [status |-> 405, body |-> Plain("Only POST requests are allowed")]
    ELSE IF ~c.Decodes
    THEN [status |-> 400, body |-> Plain("Invalid request payload")]
    ELSE IF c.Payload.SessionID = "" \/ Len(c.Payload.Contents) = 0
    THEN [status |-> 400, body |-> Plain("Missing sessionId or message content")]
    ELSE [status |-> 0, body |-> Plain("")]

\* Faulty variant of Reject: the check for required fields is missing.
RejectNoRequiredFields(c) ==
    IF c.Method = "OPTIONS" THEN [status |-> 200, body |-> Plain("")]
    ELSE IF c.Method # "POST"
    THEN [status |-> 405, body |-> Plain("Only POST requests are allowed")]
    ELSE IF ~c.Decodes
    THEN [status |-> 400, body |-> Plain("Invalid request payload")]
    ELSE [status |-> 0, body |-> Plain("")]

\* The checks before the first store access: method, JSON body, required
\* fields. The status and body of the rejection, or status 0 to go on.
Reject(c) ==
    IF c.Method = "OPTIONS" THEN [status |-> 200, body |-> Plain("")]
    ELSE IF c.Method # "POST"
    THEN [status |-> 405, body |-> Plain("Only POST requests are allowed")]
    ELSE IF ~c.Decodes
    THEN [status |-> 400, body |-> Plain("Invalid request payload")]
    ELSE IF c.Payload.SessionID = "" \/ Len(c.Payload.Contents) = 0
    THEN [status |-> 400, body |-> Plain("Missing sessionId or message content")]
    ELSE [status |-> 0, body |-> Plain("")]

\* Faulty variants of Seed: the prompt added on every turn, and never.
SeedAlways(history) == Append(history, SystemPrompt)

SeedNever(history) == history

\* 3. System Prompt: an empty history gets the system prompt.
Seed(history) ==
    IF Len(history) = 0 THEN Append(history, SystemPrompt) ELSE history

\* Faulty variant of AppendNew: every entry of contents is appended.
AppendNewAll(history, contents) ==
    history \o [i \in 1..Len(contents) |-> Message(contents[i].Role, contents[i].Text)]

\* Faulty variant of AppendNew: a message of an unknown role is not appended.
AppendNewKnownOnly(history, contents) ==
    IF contents[1].Role \in {"user", "ai", "system"}
    THEN Append(history, Message(contents[1].Role, contents[1].Text))
    ELSE history

\* Faulty variant of AppendNew: the new message takes the place of the last
\* message of the history.
AppendNewOverLast(history, contents) ==
    Append(SubSeq(history, 1, Len(history) - 1),
           Message(contents[1].Role, contents[1].Text))

\* Faulty variant of AppendNew: the new message put in front of the history.
AppendNewFirst(history, contents) ==
    <<Message(contents[1].Role, contents[1].Text)>> \o history

\* 4. Append the new message, clientPayload.Contents[0].
AppendNew(history, contents) ==
    Append(history, Message(contents[1].Role, contents[1].Text))

\* Faulty variant of AppendAI: the reply stored under the provider's role name.
AppendAIAsAssistant(history, aiText) == Append(history, Message("assistant", aiText))

\* 6. Append the AI response.
AppendAI(history, aiText) == Append(history, Message("ai", aiText))

\* A request arrives and the handler runs up to its first store access.
Arrive(r) ==
    /\ req[r].pc \in {"idle", "done"}
    /\ \E c \in ClientRequests :
         LET q == [Idle EXCEPT !.Method = c.Method, !.Decodes = c.Decodes,
                               !.Payload = c.Payload]
         IN req' = [req EXCEPT ![r] =
                      IF Reject(c).status # 0
                      THEN Respond(q, Reject(c).status, Reject(c).body)
                      ELSE [q EXCEPT !.pc = "load"]]
    /\ started' = started + 1
    /\ UNCHANGED <<redisClient, apiKeys, store, hreq, hstarted>>

\* Requests arrive independently of one another.
Receive(r) ==
    /\ started < MaxReqs
    /\ Arrive(r)

\* Faulty variant of Dispatch: the adapters do not check their API key.
DispatchNoKeyCheck(q) ==
    LET model == q.Payload.ModelName
    IN IF model \notin Providers
       THEN Respond(q, 400, Plain("Invalid model name"))
       ELSE [q EXCEPT !.pc = "call", !.sent = q.history,
                      !.payload = BuildPayload(model, q.history), !.calls = @ + 1]

\* The switch on clientPayload.ModelName up to the adapter's HTTP call: the
\* request record after it. `q.history` is the assembled history; the
\* adapter checks its key, builds its payload and posts it.
Dispatch(q) ==
    LET model == q.Payload.ModelName
    IN IF model \notin Providers
       THEN Respond(q, 400, Plain("Invalid model name"))
       ELSE IF model \notin apiKeys
       THEN Respond([q EXCEPT !.sent = q.history, !.err = KeyError(model)], 500,
                    ErrorText(KeyError(model)))
       ELSE [q EXCEPT !.pc = "call", !.sent = q.history,
                      !.payload = BuildPayload(model, q.history), !.calls = @ + 1]

\* Faulty variant of AfterLoad: the return after the error is missing.
AfterLoadNoReturn(q, got) ==
    Dispatch([q EXCEPT !.reads = @ + got.reads, !.err = got.err,
                       !.loaded = got.history,
                       !.seeded = (Seed(got.history) # got.history),
                       !.history = AppendNew(Seed(got.history), q.Payload.Contents)])

\* Faulty variant of AfterLoad: a failed read is tried again.
AfterLoadRetry(q, got) ==
    IF got.err # NoErr
    THEN [q EXCEPT !.reads = @ + got.reads]
    ELSE Dispatch([q EXCEPT !.reads = @ + got.reads,
                            !.loaded = got.history,
                            !.seeded = (Seed(got.history) # got.history),
                            !.history = AppendNew(Seed(got.history), q.Payload.Contents)])

\* What follows getHistoryFromRedis up to the provider's call: the error
\* return, or the seeding, the new message and the dispatch.
AfterLoad(q, got) ==
    IF got.err # NoErr
    THEN Respond([q EXCEPT !.reads = @ + got.reads, !.err = got.err], 500,
                 Plain("Internal server error retrieving history"))
    ELSE Dispatch([q EXCEPT !.reads = @ + got.reads,
                            !.loaded = got.history,
                            !.seeded = (Seed(got.history) # got.history),
                            !.history = AppendNew(Seed(got.history), q.Payload.Contents)])

\* 2. Retrieve the history from Redis, and on to the provider's call.
Load(r) ==
    /\ req[r].pc = "load"
    /\ \E up \in BOOLEAN :
         req' = [req EXCEPT ![r] =
                   AfterLoad(req[r], getHistoryFromRedis(req[r].Payload.SessionID, up))]
    /\ UNCHANGED <<redisClient, apiKeys, store, started, hreq, hstarted>>

\* Faulty variant of AfterCall: the return after the adapter's error is missing.
AfterCallNoReturn(q, resp, res) ==
    [q EXCEPT !.pc = "save", !.resp = resp, !.err = res.err, !.aiText = res.text,
              !.history = AppendAI(q.history, res.text)]

\* Faulty variant of AfterCall: after an adapter's error the handler calls the
\* adapter again.
AfterCallAgain(q, resp, res) ==
    IF res.err # NoErr
    THEN [q EXCEPT !.resp = resp]
    ELSE [q EXCEPT !.pc = "save", !.resp = resp, !.aiText = res.text,
                   !.history = AppendAI(q.history, res.text)]

\* Faulty variant of AfterCall: the history is saved without the AI message.
AfterCallNoAppend(q, resp, res) ==
    IF res.err # NoErr
    THEN Respond([q EXCEPT !.resp = resp, !.err = res.err], 500, ErrorText(res.err))
    ELSE [q EXCEPT !.pc = "save", !.resp = resp, !.aiText = res.text]

\* What follows the adapter's return: the error return, or the AI message
\* appended to the history.
AfterCall(q, resp, res) ==
    IF res.err # NoErr
    THEN Respond([q EXCEPT !.resp = resp, !.err = res.err], 500, ErrorText(res.err))
    ELSE [q EXCEPT !.pc = "save", !.resp = resp, !.aiText = res.text,
                   !.history = AppendAI(q.history, res.text)]

\* The provider answers (or the call fails) and the adapter returns.
ProviderReturn(r) ==
    /\ req[r].pc = "call"
    /\ \E resp \in ProviderResponses :
         req' = [req EXCEPT ![r] =
                   AfterCall(req[r], resp, AdapterResult(req[r].Payload.ModelName, resp))]
    /\ UNCHANGED <<redisClient, apiKeys, store, started, hreq, hstarted>>

\* Faulty variant of AfterSave: a failed save fails the request.
AfterSaveStrict(q, put) ==
    IF put.err # NoErr
    THEN Respond([q EXCEPT !.writes = @ + put.writes, !.saved = FALSE,
                           !.logged = put.err],
                 500, Plain("Internal server error saving history"))
    ELSE Respond([q EXCEPT !.writes = @ + put.writes, !.saved = TRUE,
                           !.logged = put.err],
                 200, TextJSON(q.aiText))

\* What follows saveHistoryToRedis: its error is logged, and the reply is
\* sent.
AfterSave(q, put) ==
    Respond([q EXCEPT !.writes = @ + put.writes, !.saved = (put.err = NoErr),
                      !.logged = put.err],
            200, TextJSON(q.aiText))

\* 7. Save the history back to Redis, and answer the client.
Save(r) ==
    /\ req[r].pc = "save"
    /\ \E up \in BOOLEAN :
         LET put == saveHistoryToRedis(req[r].Payload.SessionID, req[r].history, up, r)
         IN /\ store' = put.store
            /\ req' = [req EXCEPT ![r] = AfterSave(req[r], put)]
    /\ UNCHANGED <<redisClient, apiKeys, started, hreq, hstarted>>

\* -------------------------------------------------- the history handler

\* What a client can send to /chat/history: the method and the sessionId
\* query parameter.
HistReq(method, sid) == [Method |-> method, SessionID |-> sid]

HistRequests ==
    {HistReq("OPTIONS", ""), HistReq("POST", "s1"), HistReq("GET", "")}
    \cup {HistReq("GET", sid) : sid \in Keys}

\* A response body of the history handler: a text, or a JSON value.
NoValue == [kind |-> "none", items |-> <<>>]
HBody(text, value) == [text |-> text, value |-> value]

HIdle ==
    [pc |-> "idle", Method |-> "", SessionID |-> "", status |-> 0,
     body |-> HBody("", NoValue), reads |-> 0, panicked |-> FALSE]

HRespond(h, status, body) == [h EXCEPT !.pc = "done", !.status = status, !.body = body]

\* The checks before the store access: method and sessionId.
HistReject(c) ==
    IF c.Method = "OPTIONS" THEN [status |-> 200, body |-> HBody("", NoValue)]
    ELSE IF c.Method # "GET"
    THEN [status |-> 405, body |-> HBody("Only GET requests are allowed", NoValue)]
    ELSE IF c.SessionID = ""
    THEN [status |-> 400, body |-> HBody("Missing sessionId query parameter", NoValue)]
    ELSE [status |-> 0, body |-> HBody("", NoValue)]

\* A request arrives at /chat/history and the handler runs up to its store
\* access.
HistArrive ==
    /\ hreq.pc \in {"idle", "done"}
    /\ hstarted < MaxHist
    /\ \E c \in HistRequests :
         LET h == [HIdle EXCEPT !.Method = c.Method, !.SessionID = c.SessionID]
         IN hreq' = IF HistReject(c).status # 0
                    THEN HRespond(h, HistReject(c).status, HistReject(c).body)
                    ELSE [h EXCEPT !.pc = "get"]
    /\ hstarted' = hstarted + 1
    /\ UNCHANGED <<redisClient, apiKeys, store, req, started>>

\* Faulty variant of HistResult: the empty array is answered for every key.
HistResultEmpty(h, up) ==
    IF ~redisClient
    THEN [h EXCEPT !.pc = "done", !.panicked = TRUE]
    ELSE IF ~up
    THEN HRespond([h EXCEPT !.reads = @ + 1], 500,
                  HBody("Internal server error retrieving history", NoValue))
    ELSE HRespond([h EXCEPT !.reads = @ + 1], 200, HBody("", Marshal(<<>>)))

\* redisClient.Get(ctx, sessionId).Result() and what follows it. The
\* handler does not check redisClient: on a nil client the call panics, and
\* the server ends the request without a response. `up` says whether Redis
\* answers the command.
HistResult(h, up) ==
    IF ~redisClient
    THEN [h EXCEPT !.pc = "done", !.panicked = TRUE]
    ELSE IF ~up
    THEN HRespond([h EXCEPT !.reads = @ + 1], 500,
                  HBody("Internal server error retrieving history", NoValue))
    ELSE IF ~store[h.SessionID].present
    THEN HRespond([h EXCEPT !.reads = @ + 1], 200, HBody("", Marshal(<<>>)))
    ELSE HRespond([h EXCEPT !.reads = @ + 1], 200, HBody("", store[h.SessionID].val))

\* Faulty variant of HistGet: a read that Redis answers renews the lifetime of
\* the key it reads.
HistGetTouch ==
    /\ hreq.pc = "get"
    /\ \E up \in BOOLEAN :
         /\ hreq' = HistResult(hreq, up)
         /\ store' = IF redisClient /\ up /\ store[hreq.SessionID].present
                     THEN [store EXCEPT ![hreq.SessionID].ttl = CHAT_HISTORY_TTL]
                     ELSE store
    /\ UNCHANGED <<redisClient, apiKeys, req, started, hstarted>>

HistGet ==
    /\ hreq.pc = "get"
    /\ \E up \in BOOLEAN : hreq' = HistResult(hreq, up)
    /\ UNCHANGED <<redisClient, apiKeys, store, req, started, hstarted>>

\* Twelve hours pass: every key's remaining lifetime shrinks, and a key
\* whose lifetime is over is gone.
Tick ==
    /\ \E k \in Keys : store[k].present
    /\ store' = [k \in Keys |->
                   IF store[k].present /\ store[k].ttl > 1
                   THEN [store[k] EXCEPT !.ttl = @ - 1]
                   ELSE Absent]
    /\ UNCHANGED <<redisClient, apiKeys, req, started, hreq, hstarted>>

\* ---------------------------------------------------------- specification

\* The environments the process can start in: with or without REDIS_ADDR,
\* with these API keys set, and with a Redis that is empty or holds, under
\* s2, a value some other client wrote.
KeyConfigs == {Providers, Providers \ {"gemini"}, {}}

InitStores ==
    {[k \in Keys |-> Absent],
     [k \in Keys |-> IF k = "s2"
                     THEN [present |-> TRUE, val |-> Garbage, ttl |-> CHAT_HISTORY_TTL,
                           by |-> 0, sets |-> 0, left |-> 0]
                     ELSE Absent]}

Init ==
    /\ redisClient \in BOOLEAN
    /\ apiKeys \in KeyConfigs
    /\ store \in InitStores
    /\ req = [r \in Slots |-> Idle]
    /\ started = 0
    /\ hreq = HIdle
    /\ hstarted = 0

Next ==
    \/ \E r \in Slots : Receive(r)
    \/ \E r \in Slots : Load(r)
    \/ \E r \in Slots : ProviderReturn(r)
    \/ \E r \in Slots : Save(r)
    \/ Tick

Spec == Init /\ [][Next]_vars

\* One client that sends its next request when the last one was answered,
\* within the lifetime of its keys: a single handler runs at a time and no
\* key expires.
ReceiveAlone ==
    /\ started < MaxTurns
    /\ Arrive(1)

NextSeq ==
    \/ ReceiveAlone
    \/ Load(1)
    \/ ProviderReturn(1)
    \/ Save(1)

SpecSeq == Init /\ [][NextSeq]_vars

\* Every store call and every provider call returns: a handler that waits
\* for Redis or for the provider takes its next step.
Returns ==
    \A r \in Slots :
        WF_vars(Load(r)) /\ WF_vars(ProviderReturn(r)) /\ WF_vars(Save(r))

\* Both endpoints: POST /chat requests of well-formed Gemini turns, a
\* preflight request, a request with the wrong method and one with an
\* unknown model, and GET /chat/history requests beside them.
FewRequests ==
    {HttpReq("OPTIONS", FALSE, EmptyPayload), HttpReq("GET", FALSE, EmptyPayload),
     HttpReq("POST", TRUE, Payload("s1", "unknown", <<UserHi>>))}
    \cup {HttpReq("POST", TRUE, Payload(sid, "gemini", <<m>>)) :
            sid \in Keys, m \in {UserHi, UserYo}}

ReceiveFew(r) ==
    /\ started < MaxChats
    /\ Arrive(r)
    /\ [Method |-> req'[r].Method, Decodes |-> req'[r].Decodes,
        Payload |-> req'[r].Payload] \in FewRequests

NextHistory ==
    \/ \E r \in Slots : ReceiveFew(r)
    \/ \E r \in Slots : Load(r)
    \/ \E r \in Slots : ProviderReturn(r)
    \/ \E r \in Slots : Save(r)
    \/ Tick
    \/ HistArrive
    \/ HistGet

SpecHistory == Init /\ [][NextHistory]_vars

\* POST /chat alone, with requests in flight together and key expiry, when
\* every store call and every provider call returns.
NextChat ==
    \/ \E r \in Slots : ReceiveFew(r)
    \/ \E r \in Slots : Load(r)
    \/ \E r \in Slots : ProviderReturn(r)
    \/ \E r \in Slots : Save(r)
    \/ Tick

SpecLive == Init /\ [][NextChat]_vars /\ Returns

\* ------------------------------------------------------------ properties

\* The new message of the request in slot r, as the handler appends it.
NewMessage(r) ==
    Message(req[r].Payload.Contents[1].Role, req[r].Payload.Contents[1].Text)

\* C1: in a sequence of turns that follow one another without key expiry,
\* a turn whose provider call and store write succeed leaves under its
\* session id the transcript stored before it (the system prompt alone,
\* when nothing was stored) followed by its new message and by one ai
\* message with its reply; after N such turns the stored transcript has
\* 1 + 2N messages.
C1_TurnStep ==
    \A k \in Keys :
        (req[1].pc = "save" /\ req[1].Payload.SessionID = k /\ req'[1].saved)
        => /\ store'[k].present
           /\ store'[k].sets = store[k].sets + 1
           /\ Unmarshal(store'[k].val).history =
                (IF store[k].present THEN Stored(k) ELSE <<SystemPrompt>>)
                \o <<NewMessage(1), Message("ai", req'[1].body.text)>>

C1_Length ==
    \A k \in Keys :
        (store[k].present /\ store[k].sets > 0)
        => Len(Stored(k)) = 1 + 2 * store[k].sets

C1_SequentialTurns == [][C1_TurnStep]_vars /\ []C1_Length

C1_Witness ==
    \E k \in Keys :
        /\ store[k].present /\ store[k].sets = 3 /\ Len(Stored(k)) = 7
        /\ Stored(k)[4] # Stored(k)[6]

\* C2: when the provider call succeeded and the store write fails, the
\* client gets 200 with the reply text, the failure is logged, and the
\* store is as it was.
C2_Step ==
    \A r \in Slots :
        (req[r].pc = "save" /\ req'[r].pc = "done" /\ ~req'[r].saved)
        => /\ req'[r].status = 200
           /\ req'[r].body = [json |-> TRUE, text |-> req[r].aiText, code |-> 0,
                              detail |-> ""]
           /\ req'[r].logged # NoErr
           /\ store' = store

C2_WriteFailureNotFatal == [][C2_Step]_vars

C2_Witness ==
    \E r \in Slots :
        /\ req[r].pc = "done" /\ req[r].status = 200
        /\ req[r].body.json /\ req[r].body.text = "hello"
        /\ req[r].calls = 1 /\ req[r].writes = 1 /\ ~req[r].saved
        /\ req[r].logged.msg = "redis error saving history"
        /\ ~store[req[r].Payload.SessionID].present

\* The errors of the load step.
LoadErrors ==
    {Err("Redis client is not initialized", 0, ""),
     Err("redis error retrieving history", 0, ""),
     Err("error unmarshaling history JSON", 0, "")}

\* C3: a request whose load step failed (client not initialized, store
\* unreachable, stored value undecodable) has ended with 500 and has made
\* no provider call and no store write.
C3_LoadFailureAborts ==
    \A r \in Slots :
        req[r].err \in LoadErrors
        => /\ req[r].pc = "done" /\ req[r].status = 500
           /\ req[r].calls = 0 /\ req[r].writes = 0
           /\ req[r].sent = <<>> /\ req[r].payload = <<>> /\ ~req[r].saved

C3_Witness ==
    \E r1, r2 \in Slots :
        /\ req[r1].pc = "done" /\ req[r1].err.msg = "redis error retrieving history"
        /\ req[r2].pc = "done" /\ req[r2].err.msg = "error unmarshaling history JSON"
        /\ req[r1].status = 500 /\ req[r2].status = 500

\* The provider's answers an adapter turns into an error.
FailingReply(model, resp) ==
    \/ resp.netErr
    \/ resp.StatusCode # 200
    \/ ~resp.decodes
    \/ Len(resp.items) = 0
    \/ model = "gemini" /\ Len(resp.items[1].parts) = 0

\* C4: when the adapter fails (missing key, network error, non-200 status,
\* undecodable or empty envelope) the request ends with 500 in that step,
\* has written nothing, and the step leaves the store as it was; a request
\* that ended with 500 never wrote.
C4_Step ==
    \A r \in Slots :
        /\ (req[r].pc = "call" /\ req'[r].pc # "call"
            /\ FailingReply(req[r].Payload.ModelName, req'[r].resp))
           => (req'[r].pc = "done" /\ req'[r].status = 500 /\ req'[r].writes = 0
               /\ req'[r].history = req[r].sent /\ store' = store)
        /\ (req[r].pc = "load" /\ req'[r].pc # "load" /\ req'[r].err \notin LoadErrors
            /\ req[r].Payload.ModelName \in Providers \ apiKeys)
           => (req'[r].pc = "done" /\ req'[r].status = 500 /\ req'[r].writes = 0
               /\ req'[r].calls = 0 /\ store' = store)

C4_Inv ==
    \A r \in Slots :
        (req[r].pc = "done" /\ req[r].status = 500)
        => (req[r].writes = 0 /\ ~req[r].saved)

C4_AdapterFailureNoWrite == [][C4_Step]_vars /\ []C4_Inv

C4_Witness ==
    \E r \in Slots :
        /\ req[r].pc = "done" /\ req[r].status = 500 /\ req[r].writes = 0
        /\ req[r].err = Err("API returned status code", 500, "boom")
        /\ req[r].loaded = <<SystemPrompt, UserHi, Message("ai", "hello")>>
        /\ store[req[r].Payload.SessionID].present
        /\ Stored(req[r].Payload.SessionID) = req[r].loaded

\* Two answered requests of one session that loaded the same transcript and
\* both wrote.
BothWrote(r1, r2) ==
    /\ r1 # r2
    /\ req[r1].pc = "done" /\ req[r2].pc = "done"
    /\ req[r1].status = 200 /\ req[r2].status = 200
    /\ req[r1].saved /\ req[r2].saved
    /\ req[r1].Payload.SessionID = req[r2].Payload.SessionID
    /\ req[r1].loaded = req[r2].loaded

\* C5: of two requests of one session that both loaded the same transcript,
\* were both answered 200 with their own reply and both wrote, the store
\* holds the turn of the later writer alone: the loaded transcript (or the
\* system prompt) and one new message and one reply.
C5_LostUpdate ==
    \A r1, r2 \in Slots :
        LET k == req[r2].Payload.SessionID
        IN (BothWrote(r1, r2) /\ store[k].present /\ store[k].by = r2)
           => /\ Stored(k) =
                   (IF req[r2].loaded = <<>> THEN <<SystemPrompt>> ELSE req[r2].loaded)
                   \o <<NewMessage(r2), Message("ai", req[r2].body.text)>>
              /\ req[r1].body.text = req[r1].aiText

\* The two SETs followed the two GETs: the key exists since the first SET,
\* and both requests loaded an absent key.
C5_Witness ==
    \E r1, r2 \in Slots :
        /\ BothWrote(r1, r2)
        /\ req[r1].Payload.SessionID = "s1"
        /\ req[r1].loaded = <<>>
        /\ NewMessage(r1) = UserHi /\ NewMessage(r2) = UserYo
        /\ req[r1].body.text = "hello" /\ req[r2].body.text = "hey"
        /\ store["s1"].present /\ store["s1"].sets = 2 /\ store["s1"].by = r2
        /\ Stored("s1") = <<SystemPrompt, UserYo, Message("ai", "hey")>>

\* C6: the load of a key Redis does not hold yields an empty transcript and
\* no error, the handler seeds the system prompt in front of the new
\* message, and the write of a request that loaded nothing stores the
\* system prompt at index 0 and the new message after it.
C6_Step ==
    \A r \in Slots :
        LET k == req[r].Payload.SessionID
        IN /\ (req[r].pc = "load" /\ req'[r].pc # "load" /\ redisClient
               /\ ~store[k].present
               /\ req'[r].err # Err("redis error retrieving history", 0, ""))
              => (req'[r].err \notin LoadErrors /\ req'[r].loaded = <<>>
                  /\ req'[r].seeded
                  /\ req'[r].history = <<SystemPrompt, NewMessage(r)>>)
           /\ (req[r].pc = "save" /\ req[r].loaded = <<>> /\ req'[r].saved)
              => (Len(Unmarshal(store'[k].val).history) = 3
                  /\ Unmarshal(store'[k].val).history[1] = SystemPrompt
                  /\ Unmarshal(store'[k].val).history[2] = NewMessage(r))

C6_FreshSessionSeeded == [][C6_Step]_vars

C6_Witness ==
    \E r \in Slots :
        /\ req[r].pc = "done" /\ req[r].saved /\ req[r].loaded = <<>> /\ req[r].seeded
        /\ store[req[r].Payload.SessionID].present
        /\ store[req[r].Payload.SessionID].sets = 1
        /\ Stored(req[r].Payload.SessionID)[1] = SystemPrompt
        /\ Stored(req[r].Payload.SessionID)[2] = UserHi

IsSystem(m) == m.Role = "system"

\* C7: when the loaded transcript is not empty, the transcript handed to
\* the adapter and the one written back hold exactly the system messages
\* that were loaded.
C7_NoSystemMessageAdded ==
    \A r \in Slots :
        (req[r].loaded # <<>> /\ req[r].sent # <<>>)
        => /\ SelectSeq(req[r].sent, IsSystem) = SelectSeq(req[r].loaded, IsSystem)
           /\ SelectSeq(req[r].history, IsSystem) = SelectSeq(req[r].loaded, IsSystem)

\* The text an adapter reads out of the envelope of a 200 answer.
FirstText(model, resp) ==
    IF model = "gemini" THEN resp.items[1].parts[1] ELSE resp.items[1].text

\* C8: a POST /chat request answered with 200 returns {text} with the text
\* the adapter extracted from the provider's envelope, and this is the text
\* of the ai message that ends the transcript the request writes, which is
\* the assembled transcript and one more message; a write that succeeded
\* and was not overwritten left exactly this transcript under the key.
C8_ReplyIsLastStored ==
    \A r \in Slots :
        (req[r].pc = "done" /\ req[r].Method = "POST" /\ req[r].status = 200)
        => /\ req[r].body.json
           /\ req[r].body.text = FirstText(req[r].Payload.ModelName, req[r].resp)
           /\ req[r].history = Append(req[r].sent, Message("ai", req[r].body.text))
           /\ req[r].writes = 1
           /\ (req[r].saved /\ store[req[r].Payload.SessionID].present
               /\ store[req[r].Payload.SessionID].by = r)
              => Stored(req[r].Payload.SessionID) = req[r].history

C8_Witness ==
    \E r \in Slots :
        /\ req[r].pc = "done" /\ req[r].status = 200
        /\ req[r].Payload = Payload("s1", "gemini", <<UserHi>>)
        /\ req[r].loaded = <<>>
        /\ req[r].body = [json |-> TRUE, text |-> "hello", code |-> 0, detail |-> ""]
        /\ store["s1"].present /\ store["s1"].sets = 1
        /\ Stored("s1") = <<SystemPrompt, UserHi, Message("ai", "hello")>>

\* C9: the transcript handed to the adapter is the loaded transcript, or
\* the system prompt when nothing was loaded, and the new message as its
\* last element; it stays so when the reply has come, and the payload is
\* built from it.
C9_AdapterInput ==
    \A r \in Slots :
        /\ req[r].pc \in {"call", "save"} => req[r].sent # <<>>
        /\ req[r].sent # <<>>
           => /\ req[r].sent =
                   (IF req[r].loaded = <<>> THEN <<SystemPrompt>> ELSE req[r].loaded)
                   \o <<NewMessage(r)>>
              /\ req[r].pc = "call" => req[r].history = req[r].sent
              /\ req[r].calls = 1
                 => req[r].payload = BuildPayload(req[r].Payload.ModelName, req[r].sent)

C9_Witness ==
    \E r \in Slots :
        /\ req[r].pc = "call"
        /\ req[r].loaded = <<SystemPrompt, UserHi, Message("ai", "hello")>>
        /\ req[r].sent = <<SystemPrompt, UserHi, Message("ai", "hello"), UserYo>>

\* C10: a POST /chat request whose decoded modelName is none of the four
\* providers is answered with 400 and makes no provider call and no store
\* write (stated for a process whose Redis client is initialized).
C10_UnknownModel400 ==
    \A r \in Slots :
        (redisClient /\ req[r].pc = "done" /\ req[r].Method = "POST" /\ req[r].Decodes
         /\ req[r].Payload.ModelName \notin Providers)
        => (req[r].status = 400 /\ req[r].calls = 0 /\ req[r].writes = 0)

\* A POST /chat request whose body decoded and lacks a required field: the
\* session id is empty, or contents is absent or an empty list (both decode
\* to a slice of length 0).
MissingField(r) ==
    /\ req[r].Method = "POST" /\ req[r].Decodes
    /\ (req[r].Payload.SessionID = "" \/ Len(req[r].Payload.Contents) = 0)

\* C11: a POST /chat request with an empty sessionId or with no new message
\* has ended with status 400 as soon as it was received, and has made no
\* store read, no provider call and no store write.
C11_MissingFields400 ==
    \A r \in Slots :
        MissingField(r)
        => /\ req[r].pc = "done" /\ req[r].status = 400
           /\ req[r].reads = 0 /\ req[r].calls = 0 /\ req[r].writes = 0
           /\ req[r].sent = <<>> /\ req[r].payload = <<>> /\ ~req[r].saved

C11_Witness ==
    \E r1, r2 \in Slots :
        /\ req[r1].pc = "done" /\ req[r1].Payload.SessionID = ""
        /\ Len(req[r1].Payload.Contents) = 1 /\ req[r1].status = 400
        /\ req[r2].pc = "done" /\ req[r2].Payload.SessionID = "s1"
        /\ req[r2].Payload.Contents = <<>> /\ req[r2].status = 400
        /\ req[r1].Decodes /\ req[r2].Decodes

\* A POST /chat request whose new message is present and has the empty
\* string as its text.
EmptyText(r) ==
    /\ req[r].Method = "POST" /\ req[r].Decodes
    /\ req[r].Payload.SessionID # "" /\ Len(req[r].Payload.Contents) > 0
    /\ req[r].Payload.Contents[1].Text = ""

\* C12: a POST /chat request whose new message is present but has an empty
\* text ends with status 400, and its message is neither appended to the
\* transcript nor sent to a provider (stated for a request that no store
\* failure and no provider failure has ended).
C12_EmptyText400 ==
    \A r \in Slots :
        (EmptyText(r) /\ req[r].err = NoErr)
        => /\ req[r].pc = "done" => req[r].status = 400
           /\ req[r].history = <<>> /\ req[r].sent = <<>> /\ req[r].payload = <<>>

\* The provider role the role table gives for a canonical role.
ExpectedRole(model, role) ==
    CASE role = "user" -> "user"
      [] role = "system" -> "user"
      [] role = "ai" -> IF model = "gemini" THEN "model" ELSE "assistant"

\* C13: in the payload an adapter has built, the entry made from each
\* message with a canonical role carries the provider role of the table:
\* user for user and for system in all four adapters, model for ai in the
\* Gemini adapter and assistant for ai in the Llama, Claude and ChatGPT
\* adapters. (The entries made from messages are the last ones of the
\* payload.)
C13_RoleMapping ==
    \A r \in Slots :
        req[r].calls = 1
        => LET known == SelectSeq(req[r].sent, Recognized)
               n == Len(req[r].payload) - Len(known)
           IN \A i \in 1..Len(known) :
                req[r].payload[n + i].role
                  = ExpectedRole(req[r].Payload.ModelName, known[i].Role)

CanonicalRoles == {"user", "ai", "system"}

\* The text a payload entry carries.
EntryText(model, e) == IF model = "gemini" THEN e.parts[1].text ELSE e.content

\* C14: when the transcript handed to an adapter holds a message whose role
\* is outside {user, ai, system}, the adapter does not fail on it (with its
\* key set it goes on to the HTTP call), no entry of the payload carries
\* that message's text, and the texts of the messages with a canonical
\* role are all in the payload.
C14_UnknownRoleSkipped ==
    \A r \in Slots :
        LET model == req[r].Payload.ModelName
        IN (req[r].sent # <<>> /\ model \in apiKeys)
           => /\ req[r].calls = 1
              /\ \A i \in DOMAIN req[r].sent :
                    IF req[r].sent[i].Role \in CanonicalRoles
                    THEN \E j \in DOMAIN req[r].payload :
                           EntryText(model, req[r].payload[j]) = req[r].sent[i].Text
                    ELSE \A j \in DOMAIN req[r].payload :
                           EntryText(model, req[r].payload[j]) # req[r].sent[i].Text

C14_Witness ==
    \E r1, r2 \in Slots :
        /\ req[r1].Payload = Payload("s1", "gemini", <<Message("bogus", "zap")>>)
        /\ req[r1].pc = "done" /\ req[r1].saved /\ Len(req[r1].payload) = 1
        /\ req[r2].pc = "call" /\ req[r2].Payload.ModelName = "chatgpt"
        /\ req[r2].sent =
             <<SystemPrompt, Message("bogus", "zap"), Message("ai", "hello"), UserHi>>
        /\ Len(req[r2].payload) = 7

\* C15: a request that selected a provider whose API key is not set, once
\* its load step is over without error, has ended with status 500 and the
\* adapter's key error as its body; it has made no provider call, built no
\* payload and written nothing to the store.
C15_MissingKeyFailsFast ==
    \A r \in Slots :
        LET model == req[r].Payload.ModelName
        IN (req[r].pc \notin {"idle", "load"} /\ req[r].Method = "POST"
            /\ req[r].Decodes /\ ~MissingField(r) /\ req[r].err \notin LoadErrors
            /\ model \in Providers \ apiKeys)
           => /\ req[r].pc = "done" /\ req[r].status = 500
              /\ req[r].err = KeyError(model)
              /\ req[r].body.text = KeyError(model).msg
              /\ req[r].calls = 0 /\ req[r].payload = <<>> /\ req[r].resp = NoResp
              /\ req[r].writes = 0 /\ ~req[r].saved

\* A Gemini request without GEMINI_API_KEY, on a session an earlier turn of
\* another provider has stored: the stored transcript is the one it loaded.
C15_Witness ==
    \E r \in Slots :
        /\ req[r].pc = "done" /\ req[r].status = 500
        /\ req[r].Payload.ModelName = "gemini" /\ "gemini" \notin apiKeys
        /\ req[r].body.text = "GEMINI_API_KEY environment variable not set"
        /\ req[r].reads = 1 /\ req[r].calls = 0 /\ req[r].writes = 0
        /\ Len(req[r].loaded) = 3
        /\ store[req[r].Payload.SessionID].present
        /\ Stored(req[r].Payload.SessionID) = req[r].loaded

\* A 200 answer whose body is no envelope, or whose envelope lacks the
\* array the adapter reads: the candidates and the first candidate's parts
\* (Gemini), the choices (Llama, ChatGPT), the content (Claude).
LacksArray(model, resp) ==
    \/ ~resp.decodes
    \/ Len(resp.items) = 0
    \/ model = "gemini" /\ Len(resp.items[1].parts) = 0

ShapeErrors ==
    {Err("error parsing " \o p \o " response", 0, "") :
        p \in {"Gemini", "Llama", "Claude", "ChatGPT"}}
    \cup {Err("unexpected " \o p \o " response structure", 0, "") :
        p \in {"Gemini", "Llama", "Claude", "ChatGPT"}}

\* C16: when the provider has answered with status 200, either the envelope
\* lacks the expected non-empty array, and then the adapter returned a
\* parse or shape error and no reply text, and the request ended with 500
\* carrying that error and wrote nothing; or the adapter returned the text
\* of the first candidate, choice or content element, and that is the text
\* the request answers with.
C16_EnvelopeShape ==
    \A r \in Slots :
        LET model == req[r].Payload.ModelName
            resp == req[r].resp
        IN (~resp.netErr /\ resp.StatusCode = 200)
           => IF LacksArray(model, resp)
              THEN /\ req[r].err \in ShapeErrors
                   /\ req[r].aiText = ""
                   /\ req[r].pc = "done" /\ req[r].status = 500
                   /\ req[r].body = ErrorText(req[r].err)
                   /\ req[r].writes = 0
              ELSE /\ req[r].err = NoErr
                   /\ req[r].aiText = FirstText(model, resp)
                   /\ req[r].pc \in {"save", "done"}
                   /\ req[r].pc = "done"
                      => (req[r].status = 200 /\ req[r].body = TextJSON(req[r].aiText))

\* One envelope, a single element with no parts and an empty text: a shape
\* error in the Gemini adapter, the reply "" in the Llama adapter.
C16_Witness ==
    \E r1, r2 \in Slots :
        /\ req[r1].resp = HttpResp(FALSE, 200, "", TRUE, <<[text |-> "", parts |-> <<>>]>>)
        /\ req[r2].resp = req[r1].resp
        /\ req[r1].Payload.ModelName = "gemini" /\ req[r1].status = 500
        /\ req[r1].err.msg = "unexpected Gemini response structure"
        /\ req[r2].Payload.ModelName = "llama" /\ req[r2].status = 200
        /\ req[r2].body.text = ""

\* C17: when the provider has answered with a status other than 200, the
\* adapter's error carries the upstream status code and the upstream body,
\* and the request has ended with a 500 whose body is that error's text,
\* with that status code and that body in it; nothing was written.
C17_UpstreamError ==
    \A r \in Slots :
        LET resp == req[r].resp
        IN (resp # NoResp /\ ~resp.netErr /\ resp.StatusCode # 200)
           => /\ req[r].err = Err("API returned status code", resp.StatusCode, resp.raw)
              /\ req[r].pc = "done" /\ req[r].status = 500
              /\ ~req[r].body.json
              /\ req[r].body.text = "API returned status code"
              /\ req[r].body.code = resp.StatusCode
              /\ req[r].body.detail = resp.raw
              /\ req[r].writes = 0

C17_Witness ==
    \E r1, r2 \in Slots :
        /\ req[r1].pc = "done" /\ req[r1].status = 500
        /\ req[r1].resp.StatusCode = 429
        /\ req[r1].body.code = 429 /\ req[r1].body.detail = "quota"
        /\ req[r2].pc = "done" /\ req[r2].status = 500
        /\ req[r2].body.code = 500 /\ req[r2].body.detail = "boom"

\* C18: when the request in slot w has saved its transcript T under a key,
\* the key has not expired and no other write to it has followed (the entry
\* is still the one w's SET left), a read of the key that Redis answers
\* returns no error and a transcript equal to T.
C18_Step ==
    \A r, w \in Slots :
        LET k == req[r].Payload.SessionID
        IN (/\ r # w /\ req[r].pc = "load" /\ req'[r].pc # "load"
            /\ req[w].pc = "done" /\ req[w].saved /\ req[w].Payload.SessionID = k
            /\ store[k].present /\ store[k].by = w
            /\ req'[r].err # Err("redis error retrieving history", 0, ""))
           => /\ req'[r].err \notin LoadErrors
              /\ req'[r].reads = 1
              /\ req'[r].loaded = req[w].history

C18_RoundTrip == [][C18_Step]_vars

\* The read came twelve hours or more after the write, or less, and
\* returned the three messages written.
C18_Witness ==
    \E r, w \in Slots :
        /\ r # w /\ req[w].pc = "done" /\ req[w].saved
        /\ req[r].Payload.SessionID = req[w].Payload.SessionID
        /\ store[req[w].Payload.SessionID].present
        /\ store[req[w].Payload.SessionID].by = w
        /\ store[req[w].Payload.SessionID].ttl = 1
        /\ req[r].pc = "call" /\ req[r].reads = 1
        /\ req[r].loaded = req[w].history
        /\ req[r].loaded = <<SystemPrompt, UserYo, Message("ai", "hey")>>

\* C19: the request in slot w has saved a transcript under a key and the
\* key's lifetime has run out with no write in between (the key is gone).
\* A read of the key that Redis answers then returns the empty transcript
\* and no error, and the handler seeds the system prompt in front of the
\* new message; the write of that turn creates the key anew with three
\* messages, the system prompt, the new message and the reply, and the
\* full lifetime.
C19_Step ==
    \A r, w \in Slots :
        LET k == req[r].Payload.SessionID
        IN (/\ r # w /\ req[w].pc = "done" /\ req[w].saved
            /\ req[w].Payload.SessionID = k /\ ~store[k].present)
           => /\ (req[r].pc = "load" /\ req'[r].pc # "load"
                  /\ req'[r].err # Err("redis error retrieving history", 0, ""))
                 => (req'[r].err \notin LoadErrors /\ req'[r].reads = 1
                     /\ req'[r].loaded = <<>> /\ req'[r].seeded
                     /\ req'[r].history = <<SystemPrompt, NewMessage(r)>>)
              /\ (req[r].pc = "save" /\ req[r].loaded = <<>> /\ req'[r].saved)
                 => (store'[k].present /\ store'[k].sets = 1
                     /\ store'[k].ttl = CHAT_HISTORY_TTL
                     /\ Unmarshal(store'[k].val).history =
                          <<SystemPrompt, NewMessage(r), Message("ai", req'[r].body.text)>>)

C19_ExpiredIsAbsent == [][C19_Step]_vars

\* The first turn stored hi and hello; the key is in its first life again
\* (one SET since it came to exist) and holds the second turn alone.
C19_Witness ==
    \E r, w \in Slots :
        /\ r # w /\ req[w].pc = "done" /\ req[w].saved
        /\ req[w].Payload.SessionID = "s1" /\ req[r].Payload.SessionID = "s1"
        /\ req[w].loaded = <<>>
        /\ req[w].history = <<SystemPrompt, UserHi, Message("ai", "hello")>>
        /\ req[r].pc = "done" /\ req[r].status = 200 /\ req[r].saved
        /\ req[r].loaded = <<>> /\ req[r].seeded
        /\ store["s1"].present /\ store["s1"].by = r /\ store["s1"].sets = 1
        /\ Stored("s1") = <<SystemPrompt, UserYo, Message("ai", "hey")>>

\* C20: a store write that succeeds leaves under the session's key the
\* transcript of the writing request and nothing of the value it replaces,
\* with a lifetime of CHAT_HISTORY_TTL whatever lifetime the key had left;
\* a key comes to exist only in the step of a successful write to it, and
\* ceases to exist only in a step of time in which its lifetime ends, no
\* handler moving.
C20_Step ==
    \A k \in Keys :
        /\ \A r \in Slots :
              (req[r].pc = "save" /\ req[r].Payload.SessionID = k /\ req'[r].saved)
              => /\ store'[k].present
                 /\ store'[k].val = Marshal(req[r].history)
                 /\ Unmarshal(store'[k].val).history = req[r].history
                 /\ store'[k].ttl = CHAT_HISTORY_TTL
                 /\ store'[k].left = store[k].ttl
        /\ (~store[k].present /\ store'[k].present)
           => \E r \in Slots :
                /\ req[r].pc = "save" /\ req[r].Payload.SessionID = k
                /\ req'[r].saved
        /\ (store[k].present /\ ~store'[k].present)
           => (store[k].ttl = 1 /\ req' = req)

C20_WriteResetsLifetime == [][C20_Step]_vars

\* A second write came to s1 when half of its lifetime was left, and s1 has
\* the whole lifetime again and holds the second writer's transcript.
C20_Witness ==
    /\ store["s1"].present /\ store["s1"].sets = 2 /\ store["s1"].left = 1
    /\ store["s1"].ttl = CHAT_HISTORY_TTL
    /\ \E r \in Slots :
         /\ store["s1"].by = r /\ req[r].saved
         /\ Len(req[r].loaded) = 3 /\ Stored("s1") = req[r].history

\* C21: a GET /chat/history request that Redis answers returns, with status
\* 200, the JSON array that decodes to the transcript stored under the key,
\* which is the transcript of the request whose write the key holds, or the
\* empty array when the key is absent (never written, or expired); a GET
\* without sessionId has ended with 400 and no store access. (Stated for a
\* service with a store; without one the history endpoint is unusable.)
C21_Step ==
    LET k == hreq.SessionID
    IN (hreq.pc = "get" /\ hreq'.pc = "done" /\ redisClient /\ hreq'.status # 500)
       => /\ hreq'.status = 200 /\ hreq'.reads = 1 /\ ~hreq'.panicked
          /\ IF store[k].present
             THEN /\ hreq'.body.value = store[k].val
                  /\ store[k].sets > 0
                     => /\ ~Unmarshal(hreq'.body.value).err
                        /\ Unmarshal(hreq'.body.value).history = Stored(k)
                        /\ \A w \in Slots :
                              (store[k].by = w /\ req[w].pc = "done" /\ req[w].saved
                               /\ req[w].Payload.SessionID = k)
                              => Unmarshal(hreq'.body.value).history = req[w].history
             ELSE /\ ~Unmarshal(hreq'.body.value).err
                  /\ Unmarshal(hreq'.body.value).history = <<>>

C21_Inv ==
    (hreq.pc # "idle" /\ hreq.Method = "GET" /\ hreq.SessionID = "")
    => (hreq.pc = "done" /\ hreq.status = 400 /\ hreq.reads = 0)

C21_HistoryRead == [][C21_Step]_vars /\ []C21_Inv

\* The second history request of the behaviour read the five messages two
\* turns have stored under s1.
C21_Witness ==
    /\ hreq.pc = "done" /\ hreq.status = 200 /\ hreq.SessionID = "s1"
    /\ hstarted = 2 /\ hreq.reads = 1
    /\ store["s1"].present /\ store["s1"].sets = 2
    /\ Unmarshal(hreq.body.value).history = Stored("s1")
    /\ Stored("s1") =
         <<SystemPrompt, UserHi, Message("ai", "hello"), UserYo, Message("ai", "hey")>>

\* C22: a POST /chat request reads the store at most once, calls the
\* provider at most once and writes the store at most once, in this order:
\* the read is its first interaction, the call is issued only after a read
\* that returned no error, and the write only after a call that returned a
\* reply; a request whose step has failed has ended (nothing is retried).
C22_Step ==
    \A r \in Slots :
        req[r].pc \notin {"idle", "done"}
        => /\ req'[r].reads # req[r].reads
              => (req[r].pc = "load" /\ req[r].reads = 0 /\ req[r].calls = 0
                  /\ req[r].writes = 0 /\ req'[r].reads = 1)
           /\ req'[r].calls # req[r].calls
              => (req[r].pc = "load" /\ req[r].calls = 0 /\ req[r].writes = 0
                  /\ req'[r].reads = 1 /\ req'[r].err = NoErr /\ req'[r].calls = 1)
           /\ req'[r].writes # req[r].writes
              => (req[r].pc = "save" /\ req[r].reads = 1 /\ req[r].calls = 1
                  /\ req[r].writes = 0 /\ req[r].err = NoErr
                  /\ req[r].resp.StatusCode = 200 /\ req'[r].writes = 1)

C22_Inv ==
    \A r \in Slots :
        /\ req[r].reads <= 1 /\ req[r].calls <= req[r].reads
        /\ req[r].writes <= req[r].calls
        /\ req[r].err # NoErr => (req[r].pc = "done" /\ req[r].writes = 0)
        /\ req[r].logged # NoErr => (req[r].pc = "done" /\ req[r].writes = 1)

C22_OneOfEach == [][C22_Step]_vars /\ []C22_Inv

\* One request made its three interactions, the last of which failed; the
\* other one's provider call failed, and it wrote nothing.
C22_Witness ==
    \E r1, r2 \in Slots :
        /\ req[r1].pc = "done" /\ req[r1].reads = 1 /\ req[r1].calls = 1
        /\ req[r1].writes = 1 /\ req[r1].logged # NoErr
        /\ req[r2].pc = "done" /\ req[r2].reads = 1 /\ req[r2].calls = 1
        /\ req[r2].writes = 0 /\ req[r2].resp.netErr

\* C23: when every store call and every provider call returns, a POST /chat
\* request that waits for the store or for the provider is eventually
\* answered; a request has a response status exactly when it has ended, and
\* an ended request takes no further step (its slot changes only when the
\* next request arrives in it).
C23_Answered ==
    \A r \in Slots : (req[r].pc \in {"load", "call", "save"}) ~> (req[r].pc = "done")

C23_Step ==
    \A r \in Slots :
        /\ (req[r].pc = "done" /\ req'[r] # req[r])
           => (req'[r].reads = 0 /\ req'[r].calls = 0 /\ req'[r].writes = 0
               /\ started' = started + 1)
        /\ (req[r].status # 0 /\ req'[r].status # req[r].status)
           => started' = started + 1

C23_Inv ==
    \A r \in Slots : (req[r].status # 0) <=> (req[r].pc = "done")

C23_Terminates == C23_Answered /\ [][C23_Step]_vars /\ []C23_Inv

C23_Witness ==
    \E r1, r2 \in Slots :
        /\ r1 # r2 /\ req[r1].pc = "done" /\ req[r1].status = 200 /\ req[r1].writes = 1
        /\ req[r2].pc = "done" /\ req[r2].status = 500 /\ req[r2].calls = 1
        /\ req[r1].Payload.SessionID = req[r2].Payload.SessionID

\* C24: an OPTIONS request to /chat or to /chat/history has ended with
\* status 200 and an empty body as soon as it was received, whatever its
\* body or query holds and with or without a store; it has made no store
\* access and no provider call.
C24_Preflight ==
    /\ \A r \in Slots :
          req[r].Method = "OPTIONS"
          => /\ req[r].pc = "done" /\ req[r].status = 200 /\ req[r].body = Plain("")
             /\ req[r].reads = 0 /\ req[r].calls = 0 /\ req[r].writes = 0
             /\ req[r].err = NoErr
    /\ hreq.Method = "OPTIONS"
       => /\ hreq.pc = "done" /\ hreq.status = 200 /\ hreq.body = HBody("", NoValue)
          /\ hreq.reads = 0 /\ ~hreq.panicked

\* Preflight requests to both endpoints, of which the one to /chat has a
\* body that does not decode and the one to /chat/history no sessionId.
C24_Witness ==
    /\ hreq.Method = "OPTIONS" /\ hreq.SessionID = "" /\ hreq.status = 200
    /\ \E r \in Slots :
         /\ req[r].Method = "OPTIONS" /\ ~req[r].Decodes /\ req[r].status = 200
    /\ ~redisClient

\* C25: a POST /chat request with a session id, a new message and a
\* modelName that is none of the four providers ends with status 400 and
\* reads nothing from the store, in every state of the store and also when
\* the store does not answer (stated for a service whose Redis client is
\* initialized).
C25_UnknownModelBeforeRead ==
    \A r \in Slots :
        (redisClient /\ req[r].Method = "POST" /\ req[r].Decodes /\ ~MissingField(r)
         /\ req[r].Payload.ModelName \notin Providers)
        => /\ req[r].reads = 0
           /\ req[r].pc = "done" => req[r].status = 400

HasCanonicalRole(m) == m.Role \in CanonicalRoles

\* C26: the message sequence of the payload an adapter has built is the
\* transcript's messages with a role in {user, ai, system}, one entry for
\* each and in the transcript's order: it has as many entries as there are
\* such messages, its i-th entry carries the text of the i-th of them, and
\* no entry has an empty role.
C26_PayloadOneToOne ==
    \A r \in Slots :
        req[r].calls = 1
        => LET model == req[r].Payload.ModelName
               known == SelectSeq(req[r].sent, HasCanonicalRole)
           IN /\ Len(req[r].payload) = Len(known)
              /\ \A i \in DOMAIN req[r].payload :
                    /\ req[r].payload[i].role # ""
                    /\ i <= Len(known)
                       => EntryText(model, req[r].payload[i]) = known[i].Text

\* A transcript of whole turns: the system prompt, and after it pairs of a
\* new message and an ai message.
WholeTurns(T) ==
    /\ Len(T) >= 3 /\ Len(T) % 2 = 1
    /\ T[1] = SystemPrompt
    /\ \A i \in 1..Len(T) : (i >= 3 /\ i % 2 = 1) => T[i].Role = "ai"

\* C27: every transcript POST /chat has stored has an odd length of at
\* least 3, the system prompt as its first message and an ai message at
\* every second place from the third on, with requests of one session in
\* flight together, key expiry and failed writes; and every transcript a
\* request has read is empty or of this shape, so no reader sees a turn
\* without its reply.
C27_WholeTurns ==
    /\ \A k \in Keys :
          (store[k].present /\ store[k].sets > 0) => WholeTurns(Stored(k))
    /\ \A r \in Slots :
          req[r].loaded # <<>> => WholeTurns(req[r].loaded)

\* Two turns stored, the first of which came with the role ai chosen by
\* the client, the second by a request that had read the first.
C27_Witness ==
    \E r \in Slots :
        /\ store["s1"].present /\ store["s1"].sets = 2 /\ Len(Stored("s1")) = 5
        /\ Stored("s1")[2] = Message("ai", "hi")
        /\ req[r].pc = "done" /\ req[r].Payload.SessionID = "s1"
        /\ req[r].loaded = SubSeq(Stored("s1"), 1, 3) /\ req[r].saved

IsPrefix(a, b) == Len(a) <= Len(b) /\ SubSeq(b, 1, Len(a)) = a

\* C28, as claimed: whenever a write replaces a transcript stored under a
\* key that has not expired, the transcript it stores has the replaced
\* one as a prefix, in every execution.
C28_StoredStep ==
    \A k \in Keys :
        (store[k].present /\ store[k].sets > 0 /\ store'[k].present
         /\ store'[k].sets = store[k].sets + 1)
        => IsPrefix(Stored(k), Unmarshal(store'[k].val).history)

C28_StoredPrefixKept == [][C28_StoredStep]_vars

\* C28, amended: the transcript a request writes has the transcript the
\* request loaded as a prefix; so a write keeps every stored message at its
\* position when the key still holds what the writer loaded, that is, when
\* no other request wrote to the session between the writer's read and its
\* write.
C28_LoadedStep ==
    \A r \in Slots :
        LET k == req[r].Payload.SessionID
        IN (req[r].pc = "save" /\ req'[r].saved)
           => /\ IsPrefix(req[r].loaded, Unmarshal(store'[k].val).history)
              /\ (store[k].present /\ Stored(k) = req[r].loaded)
                 => IsPrefix(Stored(k), Unmarshal(store'[k].val).history)

C28_LoadedPrefixKept == [][C28_LoadedStep]_vars

C28_Witness ==
    \E r \in Slots :
        /\ req[r].pc = "done" /\ req[r].saved /\ req[r].Payload.SessionID = "s1"
        /\ req[r].loaded = <<SystemPrompt, UserHi, Message("ai", "hello")>>
        /\ store["s1"].present /\ store["s1"].by = r
        /\ Stored("s1") = req[r].loaded \o <<UserYo, Message("ai", "hey")>>

\* C29: the message the handler appends for the client has role user,
\* whatever role the client gave it: the last message of the transcript
\* handed to the adapter has role user.
C29_AppendedRoleUser ==
    \A r \in Slots :
        req[r].sent # <<>> => req[r].sent[Len(req[r].sent)].Role = "user"

\* C30: a step of a request for one session id leaves the entry of every
\* other key as it is, value and lifetime: an entry changes only in a step
\* of time or in the write of a POST /chat request for its own key, which
\* changes no other entry. What a POST /chat request loads is the
\* transcript under its own key (or nothing), and what a GET /chat/history
\* request returns is the value under its own key (or the empty array),
\* whatever the other keys hold and whatever requests are in flight.
C30_Step ==
    /\ \A k \in Keys :
          store'[k] # store[k]
          => \/ req' = req /\ hreq' = hreq
             \/ \E r \in Slots :
                  /\ req[r].pc = "save" /\ req'[r].pc = "done"
                  /\ req[r].Payload.SessionID = k
                  /\ \A j \in Keys \ {k} : store'[j] = store[j]
    /\ \A r \in Slots :
          (req[r].pc = "load" /\ req'[r].pc # "load")
          => req'[r].loaded
               = (IF req'[r].err = NoErr /\ store[req[r].Payload.SessionID].present
                  THEN Stored(req[r].Payload.SessionID) ELSE <<>>)
    /\ (hreq.pc = "get" /\ hreq'.pc = "done" /\ hreq'.status = 200)
       => hreq'.body.value
            = (IF store[hreq.SessionID].present THEN store[hreq.SessionID].val
               ELSE Marshal(<<>>))

C30_SessionIsolation == [][C30_Step]_vars

\* Turns of two sessions stored side by side, each request having loaded
\* nothing, and a history request that returned the transcript of s2.
C30_Witness ==
    \E r1, r2 \in Slots :
        /\ req[r1].pc = "done" /\ req[r1].saved /\ req[r1].Payload.SessionID = "s1"
        /\ req[r2].pc = "done" /\ req[r2].saved /\ req[r2].Payload.SessionID = "s2"
        /\ store["s1"].present /\ store["s2"].present
        /\ Stored("s1") = <<SystemPrompt, UserHi, Message("ai", "hello")>>
        /\ Stored("s2") = <<SystemPrompt, UserYo, Message("ai", "hey")>>
        /\ store["s1"].ttl = 1 /\ store["s2"].ttl = CHAT_HISTORY_TTL
        /\ hreq.pc = "done" /\ hreq.SessionID = "s2"
        /\ hreq.body.value = store["s2"].val

\* C31: the store changes only by the passing of time and in the persist
\* step of a POST /chat request, which ends with 200: the load step, a
\* GET /chat/history request and every step of a POST /chat request that
\* ends with 400, 405 or 500 leave the value and the remaining lifetime of
\* every key as they are, and a request that ended with 400, 405 or 500
\* has attempted no write.
C31_Step ==
    /\ store' # store
       => \/ req' = req /\ hreq' = hreq
          \/ \E r \in Slots :
               /\ req[r].pc = "save" /\ req'[r].pc = "done"
               /\ req'[r].status = 200 /\ req'[r].saved
    /\ hreq' # hreq => store' = store
    /\ \A r \in Slots :
          /\ (req[r].pc = "load" /\ req'[r] # req[r]) => store' = store
          /\ (req'[r] # req[r] /\ req'[r].status \in {400, 405, 500}) => store' = store

C31_Inv ==
    \A r \in Slots :
        req[r].status \in {400, 405, 500} => (req[r].writes = 0 /\ ~req[r].saved)

C31_OnlyPersistChanges == [][C31_Step]_vars /\ []C31_Inv

\* The transcript of s1 was stored once; since then it was read by a
\* history request and by a turn whose model is unknown (400), and half of
\* its lifetime is over: no read has renewed it.
C31_Witness ==
    \E r \in Slots :
        /\ store["s1"].present /\ store["s1"].sets = 1 /\ store["s1"].ttl = 1
        /\ hreq.pc = "done" /\ hreq.status = 200 /\ hreq.SessionID = "s1"
        /\ hreq.body.value = store["s1"].val
        /\ req[r].pc = "done" /\ req[r].status = 400 /\ req[r].reads = 1
        /\ req[r].loaded = Stored("s1")

\* C32: in stateless mode (the Redis client was never created) a POST /chat
\* request that passed validation fails in its load step, with status 500
\* and without a Redis command; no request makes a provider call or a
\* store write, and no POST /chat request is answered 200.
C32_Stateless ==
    ~redisClient
    => \A r \in Slots :
         /\ req[r].calls = 0 /\ req[r].writes = 0 /\ req[r].reads = 0
         /\ req[r].sent = <<>> /\ req[r].payload = <<>>
         /\ req[r].Method = "POST" => req[r].status # 200
         /\ (req[r].Method = "POST" /\ req[r].Decodes /\ ~MissingField(r))
            => /\ req[r].pc \in {"load", "done"}
               /\ req[r].pc = "done"
                  => /\ req[r].status = 500
                     /\ req[r].err = Err("Redis client is not initialized", 0, "")
                     /\ req[r].body = Plain("Internal server error retrieving history")

\* Well-formed turns of a known and of an unknown model, both failed.
C32_Witness ==
    /\ ~redisClient /\ apiKeys = Providers
    /\ \E r1, r2 \in Slots :
         /\ req[r1].pc = "done" /\ req[r1].status = 500
         /\ req[r1].Payload = Payload("s1", "gemini", <<UserHi>>)
         /\ req[r2].pc = "done" /\ req[r2].status = 500
         /\ req[r2].Payload.ModelName = "unknown"

\* C33: a new message whose role is outside {user, ai, system} is appended
\* to the transcript as the client sent it and has no entry in the
\* provider's payload; when the turn's write succeeded and was not
\* overwritten, the stored transcript holds the message unchanged, right
\* after what the request loaded; and every payload has, beside the empty
\* entries the Llama, Claude and ChatGPT adapters start with, one entry for
\* each message of a canonical role and none for the others.
C33_UnknownRoleStored ==
    \A r \in Slots :
        LET k == req[r].Payload.SessionID
            model == req[r].Payload.ModelName
            at == IF req[r].loaded = <<>> THEN 2 ELSE Len(req[r].loaded) + 1
        IN /\ (req[r].sent # <<>> /\ NewMessage(r).Role \notin CanonicalRoles)
              => /\ Len(req[r].sent) = at /\ req[r].sent[at] = NewMessage(r)
                 /\ req[r].history[at] = NewMessage(r)
                 /\ (req[r].saved /\ store[k].present /\ store[k].by = r)
                    => Stored(k)[at] = NewMessage(r)
           /\ req[r].calls = 1
              => Len(req[r].payload)
                   = (IF model = "gemini" THEN 0 ELSE Len(req[r].sent))
                     + Len(SelectSeq(req[r].sent, HasCanonicalRole))

\* The first turn of s1 stored a message of role bogus; the second turn
\* loaded it, built a ChatGPT payload without it and stored it again.
C33_Witness ==
    \E r \in Slots :
        /\ req[r].pc = "done" /\ req[r].saved /\ req[r].Payload.SessionID = "s1"
        /\ req[r].Payload.ModelName = "chatgpt"
        /\ Len(req[r].loaded) = 3 /\ req[r].loaded[2] = Message("bogus", "zap")
        /\ \A j \in DOMAIN req[r].payload : req[r].payload[j].content # "zap"
        /\ store["s1"].present /\ store["s1"].by = r /\ Len(Stored("s1")) = 5
        /\ Stored("s1")[2] = Message("bogus", "zap")

\* The history a request starts from: what it loaded, or the system prompt.
Base(r) == IF req[r].loaded = <<>> THEN <<SystemPrompt>> ELSE req[r].loaded

\* C34: a POST /chat request adds one client message to the transcript,
\* the first entry of contents: the transcript handed to the adapter is the
\* base and that entry, and a request answered 200 assembled, and stored if
\* its write succeeded and was not overwritten, the base, that entry and
\* the reply. A request with more than one entry in contents is not
\* rejected for it, and its other entries are in no transcript and no
\* payload of it.
C34_FirstEntryOnly ==
    \A r \in Slots :
        LET k == req[r].Payload.SessionID
            c == req[r].Payload.Contents
        IN /\ req[r].sent # <<>>
              => /\ req[r].sent = Base(r) \o <<Message(c[1].Role, c[1].Text)>>
                 /\ req[r].calls = 1
                    => req[r].payload = BuildPayload(req[r].Payload.ModelName,
                                                     Append(Base(r), c[1]))
           /\ (req[r].pc = "done" /\ req[r].Method = "POST" /\ req[r].status = 200)
              => /\ req[r].history = Base(r) \o <<c[1], Message("ai", req[r].aiText)>>
                 /\ (req[r].saved /\ store[k].present /\ store[k].by = r)
                    => Stored(k) = req[r].history
           /\ (req[r].Method = "POST" /\ req[r].Decodes /\ Len(c) > 1
               /\ req[r].Payload.SessionID # "")
              => /\ req[r].pc \in {"load", "call", "save", "done"}
                 /\ req[r].status # 400

C34_Witness ==
    \E r \in Slots :
        /\ req[r].pc = "done" /\ req[r].status = 200 /\ req[r].saved
        /\ req[r].Payload = Payload("s1", "gemini", <<UserYo, UserHi>>)
        /\ req[r].loaded = <<>> /\ Len(req[r].payload) = 2
        /\ store["s1"].present /\ store["s1"].by = r
        /\ Stored("s1") = <<SystemPrompt, UserYo, Message("ai", "hello")>>

====
